---- MODULE Spec2Model ----
(***************************************************************************)
(* The reminder subsystem of the Bookkeeping-App: the two reminder routers *)
(* reminders.js (src/unnamed/part_000) and reminders.cjs                   *)
(* (src/unnamed/part_003).  Each handler is an async function; its await   *)
(* points (the file read, the file write, each sendMail) are the steps at  *)
(* which other handlers may run.                                           *)
(***************************************************************************)
EXTENDS Integers, Sequences, FiniteSets, TLC

VARIABLES
    variant,    \* which router is mounted: "js" (part_000) or "cjs" (part_003)
    file,       \* the parsed content of reminders.json: a sequence of records
    disk,       \* what reminders.json holds: "array" (the records of file), "missing", "empty"
                \* (no bytes), "garbage" (no JSON) or "object" (JSON that is no array)
    clock,      \* the server's wall clock, in ticks
    hs,         \* per handler: kind, position, request, local list, loop cursor
    once,       \* history: <<index, day>> of successful sweep sends since the last Upsert activity
    dup,        \* history: some <<index, day>> was sent twice since the last Upsert activity
    onceS,      \* as once, restarted also whenever another handler overlaps a sweep
    dupS,       \* as dup, restarted also whenever another handler overlaps a sweep
    prevUp,     \* history: <<companyNo, status>> of the last request answered, if a successful Upsert
    att,        \* history: <<index, resolved, clock>> of each sendMail of the sweep in progress, in order
    failedPrev, \* history: the indexes whose sendMail rejected in the last sweep that finished
    doneNo,     \* history: the companyNo values POST /complete answered 200 for, no Upsert since
    doneNoS,    \* as doneNo, without the Completes that saved while a sweep held a loaded list
    px,         \* the proxy's POST /api/bookkeeping: which proxy, its configuration, the
                \* request in progress, the upstream's response, the response sent
    csv,        \* the proxy's uploads/master.csv and the CSV request in progress
    ac          \* one AutocompleteInput: its props, its state, its pending effect and timers

hist == <<once, dup, onceS, dupS, prevUp, att, failedPrev, doneNo, doneNoS>>
\* the state of the reminder routers
routers == <<variant, file, disk, clock, hs>>
\* the state outside the reminder routers
rest == <<px, csv, ac>>
vars == <<variant, file, disk, clock, hs, once, dup, onceS, dupS, prevUp, att, failedPrev,
          doneNo, doneNoS, px, csv, ac>>

-----------------------------------------------------------------------------
(* Bounds of the model *)

MaxRecords == 2      \* longest stored list
MaxSuggestions == 3  \* longest suggestions prop
MaxTimers == 2       \* most blur timers pending
MaxClock == 2        \* last clock tick
TicksPerDay == 2     \* clock ticks per calendar day

-----------------------------------------------------------------------------
(* JavaScript values *)

Undef == "undefined"                      \* an absent property
Null == <<>>                              \* lastNotifiedAt: null

Truthy(v) == v \notin {Undef, ""}
Or(a, b) == IF Truthy(a) THEN a ELSE b    \* a || b

\* new Date(t).toISOString(): <<date, time of day>>
toISOString(t) == <<t \div TicksPerDay, t % TicksPerDay>>
\* ts.slice(0, 10): the date part of an ISO timestamp
slice10(ts) == <<ts[1]>>

PayloadFields == {"companyNo", "companyName", "reference", "bookkeeperEmail", "email", "status"}
NoBody == [f \in PayloadFields |-> Undef]  \* req.body || {}

-----------------------------------------------------------------------------
(* reminders.js: POST / *)

\* r.companyNo === record.companyNo || r.companyName === record.companyName
JsMatch(r, p) == r.companyNo = p.companyNo \/ r.companyName = p.companyName

\* a validation that tests for absent properties only
InvalidUndefinedOnly(p) == p.companyNo = Undef /\ p.companyName = Undef

\* !record.companyNo && !record.companyName
Invalid(p) == ~Truthy(p.companyNo) /\ ~Truthy(p.companyName)

\* Array.prototype.findIndex over the positions that pass the test, 1-based; 0 when none does
FindIndex(hits) == IF hits = {} THEN 0 ELSE CHOOSE i \in hits : \A j \in hits : i <= j

JsNewEntry(p, now) ==
    [ id |-> Or(p.companyNo, p.companyName),
      key |-> Undef,
      companyNo |-> p.companyNo,
      companyName |-> p.companyName,
      reference |-> p.reference,
      bookkeeperEmail |-> p.bookkeeperEmail,
      email |-> p.email,
      status |-> p.status,
      active |-> TRUE,
      lastNotifiedAt |-> Null,
      createdAt |-> toISOString(now) ]

JsUpsert(list, p, now) ==
    LET idx == FindIndex({i \in 1..Len(list) : JsMatch(list[i], p)})
    IN  IF idx >= 1 THEN [list EXCEPT ![idx] = JsNewEntry(p, now)]
        ELSE Append(list, JsNewEntry(p, now))

-----------------------------------------------------------------------------
(* reminders.cjs: POST / *)

CjsKey(p) == Or(p.companyNo, p.companyName \o "::" \o Or(p.reference, ""))

CjsStr(v) == Or(v, "")     \* body.x || ''

CjsEntry(p, now) ==
    [ key |-> CjsKey(p),
      companyNo |-> CjsStr(p.companyNo),
      companyName |-> CjsStr(p.companyName),
      bookkeeperEmail |-> Or(p.bookkeeperEmail, Or(p.email, "")),
      status |-> CjsStr(p.status),
      reference |-> CjsStr(p.reference),
      active |-> p.status # "Completed",
      lastNotifiedAt |-> Null,
      createdAt |-> toISOString(now) ]

\* a record as stored by reminders.cjs: the entry's properties; id and email absent
CjsNew(e) == [f \in DOMAIN e \cup {"id", "email"} |-> IF f \in DOMAIN e THEN e[f] ELSE Undef]

\* { ...old, ...entry }: every property of entry wins, the rest are kept
CjsMerge(old, e) == [f \in DOMAIN old |-> IF f \in DOMAIN e THEN e[f] ELSE old[f]]

\* an Upsert that never looks for the key
CjsUpsertAlwaysAppend(list, p, now) == Append(list, CjsNew(CjsEntry(p, now)))

\* an Upsert that takes the record it updates out of its place and puts it last
CjsUpsertMoveToEnd(list, p, now) ==
    LET idx == FindIndex({i \in 1..Len(list) : list[i].key = CjsKey(p)})
    IN  IF idx >= 1
        THEN Append(SubSeq(list, 1, idx - 1) \o SubSeq(list, idx + 1, Len(list)),
                    CjsMerge(list[idx], CjsEntry(p, now)))
        ELSE Append(list, CjsNew(CjsEntry(p, now)))

CjsUpsert(list, p, now) ==
    LET idx == FindIndex({i \in 1..Len(list) : list[i].key = CjsKey(p)})
    IN  IF idx >= 1 THEN [list EXCEPT ![idx] = CjsMerge(list[idx], CjsEntry(p, now))]
        ELSE Append(list, CjsNew(CjsEntry(p, now)))

Upsert(v, list, p, now) == IF v = "js" THEN JsUpsert(list, p, now) ELSE CjsUpsert(list, p, now)

-----------------------------------------------------------------------------
(* POST /complete *)

CompleteMatch(r, p) == r.companyNo = p.companyNo \/ r.companyName = p.companyName

JsDeactivate(r) == [r EXCEPT !.active = FALSE]
\* a Complete that sets the status and forgets the flag
CjsDeactivateStatusOnly(r) == [r EXCEPT !.status = "Completed"]

CjsDeactivate(r) == [r EXCEPT !.active = FALSE, !.status = "Completed"]

\* a Complete that deletes the records it matches
CompleteDeletes(v, list, p) ==
    LET Keep(r) == ~CompleteMatch(r, p) IN SelectSeq(list, Keep)

\* a Complete that changes nothing
CompleteForgets(v, list, p) == list

Complete(v, list, p) ==
    [i \in 1..Len(list) |->
        IF CompleteMatch(list[i], p)
        THEN (IF v = "js" THEN JsDeactivate(list[i]) ELSE CjsDeactivate(list[i]))
        ELSE list[i]]

-----------------------------------------------------------------------------
(* The sweep: sendReminders (reminders.js), sendRemindersOnce (reminders.cjs) *)

JsLastSent(r) == IF r.lastNotifiedAt # Null THEN slice10(r.lastNotifiedAt) ELSE Null

\* a sweep without the same-day test
JsDueAnyDay(r, now) == r.active /\ (Truthy(r.bookkeeperEmail) \/ Truthy(r.email))

\* a sweep of reminders.cjs without the destination test
CjsDueNoAddressTest(r) == r.active

\* the record reaches transporter.sendMail
JsDue(r, now) ==
    /\ r.active
    /\ Truthy(r.bookkeeperEmail) \/ Truthy(r.email)
    /\ JsLastSent(r) # slice10(toISOString(now))

CjsDue(r) == r.active /\ Truthy(Or(r.bookkeeperEmail, r.email))

\* a sweep without the active test
DueInactiveToo(v, r, now) ==
    IF v = "js"
    THEN (Truthy(r.bookkeeperEmail) \/ Truthy(r.email)) /\ JsLastSent(r) # slice10(toISOString(now))
    ELSE Truthy(Or(r.bookkeeperEmail, r.email))

Due(v, r, now) == IF v = "js" THEN JsDue(r, now) ELSE CjsDue(r)

\* a loop that steps over the record right behind position i
NextDueSkipsOne(v, list, i, now) ==
    IF \E j \in (i+2)..Len(list) : Due(v, list[j], now)
    THEN CHOOSE j \in (i+2)..Len(list) :
            Due(v, list[j], now) /\ \A k \in (i+2)..(j-1) : ~Due(v, list[k], now)
    ELSE Len(list) + 1

\* the for-loop's next stop after position i: the next record that is sent, or past the end
NextDue(v, list, i, now) ==
    IF \E j \in (i+1)..Len(list) : Due(v, list[j], now)
    THEN CHOOSE j \in (i+1)..Len(list) :
            Due(v, list[j], now) /\ \A k \in (i+1)..(j-1) : ~Due(v, list[k], now)
    ELSE Len(list) + 1

\* r.lastNotifiedAt = now.toISOString() (js: the sweep's start) / new Date().toISOString() (cjs)
Stamp(v, now, t) == IF v = "js" THEN toISOString(now) ELSE toISOString(t)

\* a sweep that marks the record notified whether or not sendMail resolved
StampedAlways(v, list, i, now, t, ok) == [list EXCEPT ![i].lastNotifiedAt = Stamp(v, now, t)]

\* a sweep that also deactivates the record it has notified
StampedAndDeactivated(v, list, i, now, t, ok) ==
    IF ok THEN [list EXCEPT ![i].lastNotifiedAt = Stamp(v, now, t), ![i].active = FALSE]
    ELSE list

\* the try block around sendMail for record i: the assignment after the await runs only
\* when sendMail resolved; the catch block logs and changes nothing
Stamped(v, list, i, now, t, ok) ==
    IF ok THEN [list EXCEPT ![i].lastNotifiedAt = Stamp(v, now, t)] ELSE list

\* a sweep that leaves its loop at the first sendMail that rejects
ResumeStopsOnFailure(v, list, i, now, ok) ==
    IF ok THEN NextDue(v, list, i, now) ELSE Len(list) + 1

\* after the try/catch the for-loop goes on with the records after i, resolved or rejected
Resume(v, list, i, now, ok) == NextDue(v, list, i, now)

\* the `to` of the sweep's sendMail call for record r
JsTo(r) == Or(r.bookkeeperEmail, r.email)
CjsTo == "rajawatanubhav4@gmail.com"
MailTo(v, r) == IF v = "js" THEN JsTo(r) ELSE CjsTo

-----------------------------------------------------------------------------
(* Handlers *)

\* to: the `to` of the sendMail call the handler awaits
\* out: what a finished handler gave back besides its status: "array" (GET /: the records
\* in list), "object" (GET /: a JSON value that is no array), "TypeError" (the async
\* handler rejected and answered nothing)
Idle ==
    [kind |-> "none", pc |-> "idle", req |-> NoBody, list |-> <<>>, i |-> 0, now |-> 0,
     to |-> Undef, resp |-> 0, out |-> Undef]

\* the handler has returned; code is the HTTP status it answered (0: the cron callback answers nobody)
Done(k, code) == [Idle EXCEPT !.pc = "done", !.resp = IF k = "cron" THEN 0 ELSE code]

Free(h) == hs[h].pc \in {"idle", "done"}

\* fs.readJson rejects unless the file holds JSON; reminders.js turns a value that is no
\* array into [], reminders.cjs returns it as it is
LoadsArray(v) == v = "js" \/ disk # "object"

\* loadReminders(), when it returns an array
LoadReminders == IF disk = "array" THEN file ELSE <<>>

\* reminders.cjs with a list that is no array: list.findIndex is not a function (POST /),
\* list is not iterable (POST /complete, the sweep); the cron callback and send-now catch it
Threw(k) ==
    IF k = "send-now" THEN Done(k, 500)
    ELSE IF k = "cron" THEN Done(k, 0)
    ELSE [Done(k, 0) EXCEPT !.out = "TypeError"]

SweepKinds == {"cron", "send-now"}

\* router.post('/') and router.post('/complete') up to the first await
StartPost(h, k, p) ==
    /\ Free(h)
    /\ hs' = [hs EXCEPT ![h] =
                IF Invalid(p) THEN Done(k, 400)
                ELSE [Idle EXCEPT !.kind = k, !.pc = "loading", !.req = p]]
    /\ UNCHANGED <<variant, file, disk, clock>>

\* the cron callback, and router.get('/send-now') of reminders.cjs
StartSweep(h, k) ==
    /\ Free(h)
    /\ k = "send-now" => variant = "cjs"
    /\ hs' = [hs EXCEPT ![h] = [Idle EXCEPT !.kind = k, !.pc = "loading"]]
    /\ UNCHANGED <<variant, file, disk, clock>>

\* await loadReminders() returns; the handler runs on to its next await
Load(h) ==
    /\ hs[h].pc = "loading"
    /\ LET me == hs[h]
           list == IF me.kind = "upsert" THEN Upsert(variant, LoadReminders, me.req, clock)
                   ELSE IF me.kind = "complete" THEN Complete(variant, LoadReminders, me.req)
                   ELSE LoadReminders
           first == NextDue(variant, list, 0, clock)
       IN  /\ Len(list) <= MaxRecords
           /\ hs' = [hs EXCEPT ![h] =
                       IF ~LoadsArray(variant) THEN Threw(me.kind) ELSE
                       [me EXCEPT !.list = list,
                                  !.now = IF me.kind \in SweepKinds /\ variant = "js" THEN clock ELSE 0,
                                  !.i = IF me.kind \in SweepKinds THEN first ELSE 0,
                                  !.to = IF me.kind \in SweepKinds /\ first <= Len(list)
                                         THEN MailTo(variant, list[first]) ELSE Undef,
                                  !.pc = IF me.kind \in SweepKinds /\ first <= Len(list)
                                         THEN "sending" ELSE "saving"]]
    /\ UNCHANGED <<variant, file, disk, clock>>

\* await transporter.sendMail(...) of the sweep resolves (ok) or rejects
Send(h, ok) ==
    /\ hs[h].pc = "sending"
    /\ LET me == hs[h]
           list == Stamped(variant, me.list, me.i, me.now, clock, ok)
           nxt == Resume(variant, list, me.i, me.now, ok)
       IN  hs' = [hs EXCEPT ![h] =
                    [me EXCEPT !.list = list, !.i = nxt,
                               !.to = IF nxt <= Len(list) THEN MailTo(variant, list[nxt]) ELSE Undef,
                               !.pc = IF nxt <= Len(list) THEN "sending" ELSE "saving"]]
    /\ UNCHANGED <<variant, file, disk, clock>>

\* a save that keeps the records stored behind the end of the handler's list
SaveKeepsNewer(h) ==
    /\ hs[h].pc = "saving"
    /\ file' = hs[h].list \o SubSeq(file, Len(hs[h].list) + 1, Len(file))
    /\ disk' = "array"
    /\ hs' = [hs EXCEPT ![h] =
                IF variant = "cjs" /\ hs[h].kind = "upsert"
                THEN [hs[h] EXCEPT !.pc = "mailing"]
                ELSE Done(hs[h].kind, 200)]
    /\ UNCHANGED <<variant, clock>>

\* await saveReminders(list) returns: the whole list replaces the file's content in one
\* step (a write that fails, or that a concurrent read sees half done, is not modelled here)
Save(h) ==
    /\ hs[h].pc = "saving"
    /\ file' = hs[h].list
    /\ disk' = "array"
    /\ hs' = [hs EXCEPT ![h] =
                IF variant = "cjs" /\ hs[h].kind = "upsert"
                THEN [hs[h] EXCEPT !.pc = "mailing"]
                ELSE Done(hs[h].kind, 200)]
    /\ UNCHANGED <<variant, clock>>

\* what is left of reminders.json when fs.writeJson rejects: the file as it was (the open
\* failed), no bytes (truncated by the open), or part of the text (the write broke off)
WriteLeaves == {"same", "empty", "garbage"}

\* what the framework does with an async handler that rejects: Express 4 ignores the
\* promise and the request stays unanswered, Express 5 answers 500
Frameworks == {"express4", "express5"}

\* await saveReminders(list) rejects; POST / and POST /complete have no try around it,
\* GET /send-now and the cron callback catch what the sweep throws
SaveRejects(h, left, fw) ==
    /\ hs[h].pc = "saving"
    /\ disk' = IF left = "same" THEN disk ELSE left
    /\ file' = IF left = "same" THEN file ELSE <<>>
    /\ hs' = [hs EXCEPT ![h] =
                IF hs[h].kind \in SweepKinds THEN Done(hs[h].kind, 500)
                ELSE IF fw = "express5" THEN Done(hs[h].kind, 500)
                ELSE [Done(hs[h].kind, 0) EXCEPT !.out = "WriteError"]]
    /\ UNCHANGED <<variant, clock>>

\* reminders.cjs POST /: the immediate test mail resolves or rejects; either way 200
Mail(h) ==
    /\ hs[h].pc = "mailing"
    /\ hs' = [hs EXCEPT ![h] = Done(hs[h].kind, 200)]
    /\ UNCHANGED <<variant, file, disk, clock>>

\* router.get('/') up to its await
Get(h) ==
    /\ Free(h)
    /\ hs' = [hs EXCEPT ![h] = [Idle EXCEPT !.kind = "list", !.pc = "reading"]]
    /\ UNCHANGED <<variant, file, disk, clock>>

\* await loadReminders() returns in router.get('/'): res.json(reminders) (reminders.js),
\* res.json({ ok: true, count: list.length, reminders: list }) (reminders.cjs)
GetAnswer(h) ==
    /\ hs[h].pc = "reading"
    /\ hs' = [hs EXCEPT ![h] =
                IF LoadsArray(variant)
                THEN [Done("list", 200) EXCEPT !.out = "array", !.list = LoadReminders]
                ELSE [Done("list", 200) EXCEPT !.out = "object"]]
    /\ UNCHANGED <<variant, file, disk, clock>>

\* reminders.json is removed or overwritten from outside the server, between two requests
Damage(d) ==
    /\ \A h \in {1, 2} : Free(h)
    /\ disk' = d
    /\ file' = <<>>
    /\ UNCHANGED <<variant, clock, hs>>

Tick ==
    /\ clock < MaxClock
    /\ clock' = clock + 1
    /\ UNCHANGED <<variant, file, disk, hs>>

-----------------------------------------------------------------------------
(* History of the sweeps' successful sends *)

\* at most two handlers are in progress at a time
Handlers == {1, 2}

UpsertActive(state) == \E h \in Handlers : state[h].pc \notin {"idle", "done"} /\ state[h].kind = "upsert"

\* a sweep is running while another handler is running
SweepOverlap(state) ==
    \E h1, h2 \in Handlers :
        /\ h1 # h2
        /\ state[h1].pc \notin {"idle", "done"} /\ state[h1].kind \in SweepKinds
        /\ state[h2].pc \notin {"idle", "done"}

\* sent: this step is a sweep's sendMail that resolved, for record hs[h].i
Log(h, sent) ==
    LET e == <<hs[h].i, Stamp(variant, hs[h].now, clock)[1]>>
        up == UpsertActive(hs) \/ UpsertActive(hs')
        ov == SweepOverlap(hs) \/ SweepOverlap(hs')
    IN  /\ once' = IF up THEN {} ELSE IF sent THEN once \cup {e} ELSE once
        /\ dup' = IF up THEN FALSE ELSE dup \/ (sent /\ e \in once)
        /\ onceS' = IF up \/ ov THEN {} ELSE IF sent THEN onceS \cup {e} ELSE onceS
        /\ dupS' = IF up \/ ov THEN FALSE ELSE dupS \/ (sent /\ e \in onceS)
        /\ UNCHANGED <<prevUp, att, failedPrev, doneNo, doneNoS>>

\* handler h answers its request in this step
Answers(h) == hs'[h].pc = "done" /\ hs'[h] # hs[h]

AnswersUpsert(h) == Answers(h) /\ hs[h].kind = "upsert" /\ hs'[h].resp = 200

LogUpsert(h) ==
    /\ prevUp' = IF AnswersUpsert(h) /\ Truthy(hs[h].req.companyNo)
                 THEN <<hs[h].req.companyNo, hs[h].req.status>>
                 ELSE IF Answers(h) THEN <<>> ELSE prevUp
    /\ UNCHANGED <<once, dup, onceS, dupS, att, failedPrev, doneNo, doneNoS>>

\* the sendMail calls of the sweep that handler h runs, kept until the sweep has saved
LogAttempt(h, sent) ==
    /\ att' = IF hs[h].pc = "sending" THEN Append(att, <<hs[h].i, sent, clock>>)
              ELSE IF hs[h].pc = "saving" /\ hs[h].kind \in SweepKinds THEN <<>>
              ELSE att
    /\ failedPrev' = IF hs[h].pc = "saving" /\ hs[h].kind \in SweepKinds
                     THEN {att[n][1] : n \in {m \in 1..Len(att) : ~att[m][2]}}
                     ELSE failedPrev
    /\ UNCHANGED <<once, dup, onceS, dupS, prevUp, doneNo, doneNoS>>

\* another handler's sweep holds a list it loaded and has not saved yet
SweepHoldsList(h) ==
    \E g \in Handlers : g # h /\ hs[g].kind \in SweepKinds /\ hs[g].pc \in {"sending", "saving"}

\* POST /complete answers 200 in this step: its companyNo is remembered; any step of a
\* POST / handler forgets the companyNo of its body
LogComplete(h) ==
    LET answers == hs[h].kind = "complete" /\ hs[h].pc = "saving" /\ hs'[h].resp = 200
        up == IF hs'[h].kind = "upsert" THEN {hs'[h].req.companyNo}
              ELSE IF hs[h].kind = "upsert" THEN {hs[h].req.companyNo}
              ELSE {}
    IN  /\ doneNo' = IF answers THEN doneNo \cup {hs[h].req.companyNo} ELSE doneNo \ up
        /\ doneNoS' = IF answers /\ ~SweepHoldsList(h) THEN doneNoS \cup {hs[h].req.companyNo}
                      ELSE doneNoS \ up
        /\ UNCHANGED <<once, dup, onceS, dupS, prevUp, att, failedPrev>>

-----------------------------------------------------------------------------
(* The proxy's POST /api/bookkeeping: src/src/proxy.cjs ("render") and the local proxy
   src/unnamed/part_004 ("local") *)

\* status codes and bodies the spreadsheet endpoint answers with; a body is
\* <<"json" or "text", its text>>: whether it parses as JSON, and what it says
UpStatuses == {200, 201, 400, 404, 500, 503}
UpBodies == {<<"json", "{\"result\":\"success\"}">>, <<"json", "{\"error\":\"bad row\"}">>,
             <<"text", "<html>Error</html>">>, <<"text", "">>}

\* the request's Origin header: none, a vercel preview, another site
Origins == {"", "https://app.vercel.app", "https://other.example"}

\* originAllowed with CORS_ORIGIN unset: only hosts that end in .vercel.app
originAllowed(o) == o = "https://app.vercel.app"

\* conf: TARGET_URL / APPS_SCRIPT_URL is set
PxIdle(proxy, conf) ==
    [proxy |-> proxy, conf |-> conf, pc |-> "idle", origin |-> "", up |-> <<>>, resp |-> <<>>]

PxDone(code, body) == [px EXCEPT !.pc = "done", !.up = <<>>, !.resp = <<code, body>>]

\* app.post('/api/bookkeeping') up to its await fetch(...)
PostBookkeeping(o) ==
    /\ px.pc \in {"idle", "done"}
    /\ px' = IF px.proxy = "render" /\ o # "" /\ ~originAllowed(o)
             THEN PxDone(403, <<"json", "{\"error\":\"Origin not allowed\"}">>)
             ELSE IF ~px.conf
             THEN PxDone(500, <<"json", "{\"error\":\"not configured\"}">>)
             ELSE [px EXCEPT !.pc = "fetching", !.origin = o, !.up = <<>>, !.resp = <<>>]
    /\ UNCHANGED <<routers, hist, csv, ac>>

\* src/src/proxy.cjs: res.status(r.status).send(text)
RenderRelay(st, body) == <<st, body>>

\* part_004: upstream.json(), or { rawText, status } when the body is no JSON (the body is
\* used up by then, so text() rejects and rawText is ''); always res.status(200).json(...)
LocalRelay(st, body) ==
    <<200, <<"json",
        "{\"proxied\":true,\"appsScriptResponse\":"
        \o (IF body[1] = "json" THEN body[2]
            ELSE "{\"rawText\":\"\",\"status\":" \o ToString(st) \o "}")
        \o "}">> >>

Relay(proxy, st, body) == IF proxy = "render" THEN RenderRelay(st, body) ELSE LocalRelay(st, body)

\* await fetch(...) and the body read resolve: the upstream answered st with body
FetchResolves(st, body) ==
    /\ px.pc = "fetching"
    /\ px' = [px EXCEPT !.pc = "done", !.up = <<st, body>>, !.resp = Relay(px.proxy, st, body)]
    /\ UNCHANGED <<routers, hist, csv, ac>>

\* await fetch(...) rejects: the upstream cannot be reached
FetchRejects ==
    /\ px.pc = "fetching"
    /\ px' = IF px.proxy = "render"
             THEN PxDone(502, <<"json", "{\"error\":\"Bad gateway\"}">>)
             ELSE PxDone(500, <<"json", "{\"proxied\":false}">>)
    /\ UNCHANGED <<routers, hist, csv, ac>>

-----------------------------------------------------------------------------
(* The proxy's CSV upload and CSV serving (src/src/proxy.cjs) *)

\* a CSV text is a sequence of lines, a line a sequence of fields, <<>> an empty line
CsvTexts ==
    { << <<"company">>, <<"Acme">> >>,
      << <<"company">>, <<"Acme">>, <<>>, <<"Bolt">> >>,
      << <<"company">>, <<"Acme", "Ltd">> >>,
      << <<"company">> >> }

UPLOAD_SECRET == "super-secret"
\* the x-upload-secret header: absent, wrong, right
Secrets == {"", "guess", "super-secret"}

\* Papa.parse(raw, { header: true, skipEmptyLines: true }).data: one row per non-empty
\* line after the header line
CsvRows(text) == SelectSeq(Tail(text), LAMBDA line : line # <<>>)

\* parsed.errors: a row whose number of fields is not the header's
CsvErrors(text) == \E n \in 1..Len(CsvRows(text)) : Len(CsvRows(text)[n]) # Len(text[1])

\* present: uploads/master.csv exists; master: its text; secret, upl: the request's header
\* and its file part (<<>>: none); had, hadPresent: the file as it was when the request
\* came in; resp: <<status, rows>>
CsvIdle ==
    [present |-> FALSE, master |-> <<>>, pc |-> "idle", secret |-> "", upl |-> <<>>,
     hadPresent |-> FALSE, had |-> <<>>, resp |-> <<>>]

\* upload.single('file') of POST /api/upload-csv: multer's disk storage writes the file
\* part to uploads/master.csv before the route's handler runs
MulterStores(secret, upl) ==
    /\ csv.pc \in {"idle", "done"}
    /\ csv' = [csv EXCEPT !.pc = "stored", !.secret = secret, !.upl = upl, !.resp = <<>>,
                          !.hadPresent = csv.present, !.had = csv.master,
                          !.present = IF upl # <<>> THEN TRUE ELSE csv.present,
                          !.master = IF upl # <<>> THEN upl ELSE csv.master]
    /\ UNCHANGED <<routers, hist, px, ac>>

\* the handler of POST /api/upload-csv: a wrong secret unlinks req.file.path, which is
\* uploads/master.csv, and answers 403
UploadCsv ==
    /\ csv.pc = "stored"
    /\ csv' = IF csv.secret # UPLOAD_SECRET
              THEN [csv EXCEPT !.pc = "done", !.resp = <<403, <<>> >>,
                               !.present = IF csv.upl # <<>> THEN FALSE ELSE csv.present,
                               !.master = IF csv.upl # <<>> THEN <<>> ELSE csv.master]
              ELSE IF csv.upl = <<>>
              THEN [csv EXCEPT !.pc = "done", !.resp = <<400, <<>> >>]
              ELSE [csv EXCEPT !.pc = "done", !.resp = <<200, <<>> >>]
    /\ UNCHANGED <<routers, hist, px, ac>>

\* readCsvMaster and app.get('/api/csv-data'): 404 when the file is missing or has parse
\* errors, else 200 with the rows
GetCsvData ==
    /\ csv.pc \in {"idle", "done"}
    /\ csv' = [csv EXCEPT !.pc = "done", !.secret = "", !.upl = <<>>,
                          !.hadPresent = csv.present, !.had = csv.master,
                          !.resp = IF ~csv.present \/ CsvErrors(csv.master) THEN <<404, <<>> >>
                                   ELSE <<200, CsvRows(csv.master)>>]
    /\ UNCHANGED <<routers, hist, px, ac>>

-----------------------------------------------------------------------------
(* The AutocompleteInput component (src/App.jsx) *)

\* a text is a sequence of characters
LowerCase(c) == IF c = "A" THEN "a" ELSE IF c = "B" THEN "b" ELSE c
toLowerCase(t) == [n \in DOMAIN t |-> LowerCase(t[n])]
includes(t, part) == \E n \in 1..(Len(t) - Len(part) + 1) : SubSeq(t, n, n + Len(part) - 1) = part
Min(a, b) == IF a <= b THEN a ELSE b
Max(a, b) == IF a >= b THEN a ELSE b
slice(list, n) == SubSeq(list, 1, Min(Len(list), n))
FilteredLimit == 20
TopLimit == 50

\* the suggestions the parent passes: stretches of a column of the CSV, one cell empty
Column == << <<"A", "b">>, <<"a">>, <<>>, <<"b", "c">> >>
SuggestionLists ==
    { SubSeq(Column, n, m) : n \in 1..Len(Column), m \in 0..Len(Column) } \cap
    { list \in Seq({Column[n] : n \in 1..Len(Column)}) : Len(list) <= MaxSuggestions }
\* what the user types
Typed == { <<>>, <<"a">>, <<"B">>, <<"a", "b">> }

\* suggestions.filter(s => s && s.toString().toLowerCase().includes(value...)).slice(0, 20)
Filtered(suggestions, value) ==
    slice(SelectSeq(suggestions,
                    LAMBDA t : t # <<>> /\ includes(toLowerCase(t), toLowerCase(value))),
          FilteredLimit)

\* useState([]), useState(false), useState(-1); effect: the useEffect has yet to run for
\* the props; timers: the blur timeouts pending; sel: the last selectSuggestion call, the
\* index it took, whether filteredSuggestions had it, whether Enter made it
AcInit ==
    [value |-> <<>>, suggestions |-> <<>>, filteredSuggestions |-> <<>>,
     showSuggestions |-> FALSE, activeSuggestion |-> -1, effect |-> TRUE, timers |-> 0,
     sel |-> [idx |-> -1, ok |-> TRUE, key |-> FALSE]]

\* the parent renders the component with another value (handleInputChange)
ChangeValue(v) ==
    /\ v # ac.value
    /\ ac' = [ac EXCEPT !.value = v, !.effect = TRUE]
    /\ UNCHANGED <<routers, hist, px, csv>>

\* the parent renders the component with another suggestions array
ChangeSuggestions(list) ==
    /\ ac' = [ac EXCEPT !.suggestions = list, !.effect = TRUE]
    /\ UNCHANGED <<routers, hist, px, csv>>

\* useEffect(() => {...}, [value, suggestions])
Effect ==
    /\ ac.effect
    /\ ac' = IF ac.value # <<>>
             THEN [ac EXCEPT !.effect = FALSE,
                             !.filteredSuggestions = Filtered(ac.suggestions, ac.value),
                             !.showSuggestions = Len(Filtered(ac.suggestions, ac.value)) > 0,
                             !.activeSuggestion = -1]
             ELSE [ac EXCEPT !.effect = FALSE, !.filteredSuggestions = <<>>,
                             !.showSuggestions = FALSE, !.activeSuggestion = -1]
    /\ UNCHANGED <<routers, hist, px, csv>>

\* an ArrowDown that does not stop at the end of the list
ArrowDownUnclamped(prev, len) == prev + 1

\* prev => Math.min(prev + 1, filteredSuggestions.length - 1)
ArrowDown(prev, len) == Min(prev + 1, len - 1)

\* prev => Math.max(prev - 1, -1)
ArrowUp(prev) == Max(prev - 1, -1)

\* selectSuggestion(filteredSuggestions[idx]): onChange gives the parent the value, which
\* renders the component with it; an index outside the list gives undefined
selectSuggestion(idx, key) ==
    LET ok == idx + 1 \in DOMAIN ac.filteredSuggestions
        val == IF ok THEN ac.filteredSuggestions[idx + 1] ELSE <<>>
    IN  [ac EXCEPT !.value = val, !.effect = ac.effect \/ val # ac.value,
                   !.showSuggestions = FALSE, !.activeSuggestion = -1,
                   !.sel = [idx |-> idx, ok |-> ok, key |-> key]]

Keys == {"ArrowDown", "ArrowUp", "Enter", "Escape", "Tab"}

\* handleKeyDown
handleKeyDown(key) ==
    /\ ac' = CASE key = "ArrowDown" ->
                    [ac EXCEPT !.activeSuggestion =
                                   ArrowDown(ac.activeSuggestion, Len(ac.filteredSuggestions))]
               [] key = "ArrowUp" ->
                    [ac EXCEPT !.activeSuggestion = ArrowUp(ac.activeSuggestion)]
               [] key = "Enter" ->
                    IF ac.activeSuggestion >= 0 THEN selectSuggestion(ac.activeSuggestion, TRUE)
                    ELSE ac
               [] key = "Escape" ->
                    [ac EXCEPT !.showSuggestions = FALSE, !.activeSuggestion = -1]
               [] OTHER -> ac
    /\ ac' # ac
    /\ UNCHANGED <<routers, hist, px, csv>>

\* the rows of the list, rendered while showSuggestions && filteredSuggestions.length > 0
Rows == IF ac.showSuggestions THEN 0..(Len(ac.filteredSuggestions) - 1) ELSE {}

\* onMouseEnter={() => setActiveSuggestion(idx)}
MouseEnter(idx) ==
    /\ idx \in Rows
    /\ ac' = [ac EXCEPT !.activeSuggestion = idx]
    /\ UNCHANGED <<routers, hist, px, csv>>

\* onMouseDown={() => selectSuggestion(suggestion)}
MouseDown(idx) ==
    /\ idx \in Rows
    /\ ac' = selectSuggestion(idx, FALSE)
    /\ UNCHANGED <<routers, hist, px, csv>>

\* onFocus
Focus ==
    /\ ac' = IF ac.value # <<>>
             THEN [ac EXCEPT !.showSuggestions = Len(ac.filteredSuggestions) > 0]
             ELSE [ac EXCEPT !.filteredSuggestions = slice(ac.suggestions, TopLimit),
                             !.showSuggestions = Len(slice(ac.suggestions, TopLimit)) > 0,
                             !.activeSuggestion = -1]
    /\ ac' # ac
    /\ UNCHANGED <<routers, hist, px, csv>>

\* handleBlur: setTimeout(..., 150)
handleBlur ==
    /\ ac.timers < MaxTimers
    /\ ac' = [ac EXCEPT !.timers = @ + 1]
    /\ UNCHANGED <<routers, hist, px, csv>>

\* the timeout of handleBlur
BlurTimeout ==
    /\ ac.timers > 0
    /\ ac' = [ac EXCEPT !.timers = @ - 1, !.showSuggestions = FALSE, !.activeSuggestion = -1]
    /\ UNCHANGED <<routers, hist, px, csv>>

-----
(* Requests *)

Body(no, name, ref, bk, em, st) ==
    [companyNo |-> no, companyName |-> name, reference |-> ref,
     bookkeeperEmail |-> bk, email |-> em, status |-> st]

\* identity only: every combination of absent, empty and present companyNo and companyName
IdBodies ==
    { Body(no, name, Undef, Undef, Undef, "Pending") :
        no \in {Undef, "", "A", "B"}, name \in {Undef, "", "X"} }

\* the same companies posted again with another status
TwiceBodies ==
    { Body(no, name, Undef, Undef, Undef, st) :
        no \in {Undef, "A", "B"}, name \in {Undef, "X"}, st \in {"Pending", "Completed"} }

IdCompletes ==
    { Body(no, name, Undef, Undef, Undef, Undef) :
        no \in {Undef, "", "A", "B"}, name \in {Undef, "", "X"} }

-----------------------------------------------------------------------------
(* Specifications *)

\* the reminder routers after require()
InitRouters ==
    /\ variant \in {"js", "cjs"}
    /\ file = <<>>
    /\ disk = IF variant = "js" THEN "empty" ELSE "array"
    /\ clock = 0
    /\ hs = [h \in Handlers |-> Idle]
    /\ once = {} /\ dup = FALSE /\ onceS = {} /\ dupS = FALSE /\ prevUp = <<>>
    /\ att = <<>> /\ failedPrev = {}
    /\ doneNo = {} /\ doneNoS = {}

\* the deployed proxy with its upstream URL set, no request yet
InitRest == px = PxIdle("render", TRUE) /\ csv = CsvIdle /\ ac = AcInit

Init == InitRouters /\ InitRest

\* track: the history the specification keeps: the sweeps' sends, the Upserts answered,
\* each sweep's attempts, the Completes answered, or none
Hist(h, sent, track) ==
    /\ IF track = "sends" THEN Log(h, sent)
       ELSE IF track = "upserts" THEN LogUpsert(h)
       ELSE IF track = "attempts" THEN LogAttempt(h, sent)
       ELSE IF track = "completes" THEN LogComplete(h)
       ELSE UNCHANGED hist
    /\ UNCHANGED rest

\* the handlers in H accept POST / with the bodies UP
Upserts(H, UP, track) == \E h \in H, p \in UP : StartPost(h, "upsert", p) /\ Hist(h, FALSE, track)

\* the handlers in H accept POST /complete with the bodies CP
Completes(H, CP, track) == \E h \in H, p \in CP : StartPost(h, "complete", p) /\ Hist(h, FALSE, track)

\* the handlers in H run past their file read and their file write
Runs(H, track) ==
    \/ \E h \in H : Load(h) /\ Hist(h, FALSE, track)
    \/ \E h \in H : Save(h) /\ Hist(h, FALSE, track)

\* reminders.cjs answers POST / after its test mail
Mails(H, track) == \E h \in H : Mail(h) /\ Hist(h, FALSE, track)

\* the handlers in H run sweeps
Sweeps(H, track) ==
    \/ \E h \in H, k \in SweepKinds : StartSweep(h, k) /\ Hist(h, FALSE, track)
    \/ \E h \in H, ok \in BOOLEAN : Send(h, ok) /\ Hist(h, ok, track)

Ticks == Tick /\ UNCHANGED <<hist, rest>>

\* the handlers in H answer GET /
Gets(H, track) ==
    \/ \E h \in H : Get(h) /\ Hist(h, FALSE, track)
    \/ \E h \in H : GetAnswer(h) /\ Hist(h, FALSE, track)

\* the file write of a handler in H fails
SaveFails(H, track) ==
    \E h \in H, left \in WriteLeaves, fw \in Frameworks :
        SaveRejects(h, left, fw) /\ Hist(h, FALSE, track)

\* the states of reminders.json in which loadReminders finds no array
NoArray == {"missing", "empty", "garbage", "object"}

Damages == \E d \in NoArray : Damage(d) /\ UNCHANGED <<hist, rest>>

\* company A with and without a destination address; company B open and completed
SweepBodies ==
    { Body("A", "X", Undef, bk, Undef, "Pending") : bk \in {Undef, "bk@x"} }
    \cup { Body("B", "Y", Undef, Undef, "em@x", st) : st \in {"Pending", "Completed"} }

SweepCompletes == { Body(no, Undef, Undef, Undef, Undef, Undef) : no \in {"A", "B"} }

\* one record, two requests that complete
RaceBodies == { Body("A", "X", Undef, "bk@x", Undef, "Pending") }

\* colliding keys, by company number and by company name
ConcBodies ==
    { Body("A", Undef, Undef, "bk@x", Undef, "Pending"),
      Body("A", "X", Undef, Undef, Undef, "Completed"),
      Body(Undef, "X", Undef, Undef, "em@x", Undef) }

ConcCompletes ==
    { Body("A", Undef, Undef, Undef, Undef, Undef),
      Body(Undef, "X", Undef, Undef, Undef, Undef) }

\* one handler at a time, identity requests, a clock that stands still
NextId ==
    \/ Upserts({1}, IdBodies, "none")
    \/ Completes({1}, IdCompletes, "none")
    \/ Runs({1}, "none")
    \/ Mails({1}, "none")
SpecId == Init /\ [][NextId]_vars

\* one handler at a time, Upserts that repeat a company, the last Upsert remembered
NextTwice ==
    \/ Upserts({1}, TwiceBodies, "upserts")
    \/ Completes({1}, SweepCompletes, "upserts")
    \/ Runs({1}, "upserts")
    \/ Mails({1}, "upserts")
SpecTwice == Init /\ [][NextTwice]_vars

\* one handler at a time: requests, sweeps and the clock
Next ==
    \/ Upserts({1}, SweepBodies, "sends")
    \/ Completes({1}, SweepCompletes, "sends")
    \/ Runs({1}, "sends")
    \/ Mails({1}, "sends")
    \/ Sweeps({1}, "sends")
    \/ Ticks
Spec == Init /\ [][Next]_vars

\* one handler at a time: requests, sweeps and the clock, each sweep's attempts remembered
NextAtt ==
    \/ Upserts({1}, SweepBodies, "attempts")
    \/ Completes({1}, SweepCompletes, "attempts")
    \/ Runs({1}, "attempts")
    \/ Mails({1}, "attempts")
    \/ Sweeps({1}, "attempts")
    \/ Ticks
SpecAtt == Init /\ [][NextAtt]_vars

\* two companies, both with an address
LostBodies ==
    { Body("A", "X", Undef, "bk@x", Undef, "Pending"),
      Body("B", "Y", Undef, Undef, "em@x", "Pending") }

\* company A with and without an address, company B with one; POST /complete for A
PassBodies == LostBodies \cup { Body("A", "X", Undef, Undef, Undef, "Pending") }
PassCompletes == { Body("A", Undef, Undef, Undef, Undef, Undef) }

\* one handler at a time with each sweep's attempts remembered; every file read, file
\* write and sendMail that a handler awaits comes back
NextPass ==
    \/ Upserts({1}, PassBodies, "attempts")
    \/ Completes({1}, PassCompletes, "attempts")
    \/ Runs({1}, "attempts")
    \/ Mails({1}, "attempts")
    \/ Sweeps({1}, "attempts")
    \/ Ticks
SendReturns == \E ok \in BOOLEAN : Send(1, ok) /\ Hist(1, ok, "attempts")
SpecPassFair ==
    Init /\ [][NextPass]_vars /\ WF_vars(Runs({1}, "attempts")) /\ WF_vars(SendReturns)

\* one handler at a time: requests, sweeps, the clock and GET /
NextList ==
    \/ Upserts({1}, SweepBodies, "none")
    \/ Completes({1}, SweepCompletes, "none")
    \/ Runs({1}, "none")
    \/ Mails({1}, "none")
    \/ Sweeps({1}, "none")
    \/ Gets({1}, "none")
    \/ Ticks
SpecList == Init /\ [][NextList]_vars

\* one handler at a time, a clock that stands still, a file that is damaged now and then
NextDisk ==
    \/ Upserts({1}, SweepBodies, "none")
    \/ Completes({1}, SweepCompletes, "none")
    \/ Runs({1}, "none")
    \/ Mails({1}, "none")
    \/ Sweeps({1}, "none")
    \/ Gets({1}, "none")
    \/ Damages
SpecDisk == Init /\ [][NextDisk]_vars

\* one handler at a time, a clock that stands still, file writes that may fail
NextWrite ==
    \/ Upserts({1}, SweepBodies, "none")
    \/ Completes({1}, SweepCompletes, "none")
    \/ Runs({1}, "none")
    \/ Mails({1}, "none")
    \/ Sweeps({1}, "none")
    \/ SaveFails({1}, "none")
SpecWrite == Init /\ [][NextWrite]_vars

\* handler 1 runs sweeps while handler 2 serves POST /, interleaving at their await points
NextLost ==
    \/ Upserts({2}, LostBodies, "none")
    \/ Runs(Handlers, "none")
    \/ Mails({2}, "none")
    \/ Sweeps({1}, "none")
SpecLost == Init /\ [][NextLost]_vars

\* handler 1 runs sweeps while handler 2 serves POST / and POST /complete, the Completes
\* answered remembered
NextDone ==
    \/ Upserts({2}, LostBodies, "completes")
    \/ Completes({2}, SweepCompletes, "completes")
    \/ Runs(Handlers, "completes")
    \/ Mails({2}, "completes")
    \/ Sweeps({1}, "completes")
SpecDone == Init /\ [][NextDone]_vars

\* either proxy, with and without its upstream URL, forwarding one submission at a time
InitProxy ==
    /\ InitRouters /\ variant = "cjs"
    /\ px \in {PxIdle(proxy, conf) : proxy \in {"render", "local"}, conf \in BOOLEAN}
    /\ csv = CsvIdle /\ ac = AcInit
NextProxy ==
    \/ \E o \in Origins : PostBookkeeping(o)
    \/ \E st \in UpStatuses, body \in UpBodies : FetchResolves(st, body)
    \/ FetchRejects
SpecProxy == InitProxy /\ [][NextProxy]_vars

\* the proxy's upload and serving of master.csv, one request at a time
NextCsv ==
    \/ \E secret \in Secrets, upl \in CsvTexts \cup {<<>>} : MulterStores(secret, upl)
    \/ UploadCsv
    \/ GetCsvData
InitCsv == Init /\ variant = "cjs"
SpecCsv == InitCsv /\ [][NextCsv]_vars

\* one AutocompleteInput under its events, its effect and its timers
NextAc ==
    \/ \E v \in Typed : ChangeValue(v)
    \/ \E list \in SuggestionLists : ChangeSuggestions(list)
    \/ Effect
    \/ \E key \in Keys : handleKeyDown(key)
    \/ \E idx \in 0..MaxSuggestions : MouseEnter(idx)
    \/ \E idx \in 0..MaxSuggestions : MouseDown(idx)
    \/ Focus
    \/ handleBlur
    \/ BlurTimeout
InitAc == Init /\ variant = "cjs"
SpecAc == InitAc /\ [][NextAc]_vars

\* reminders.js: sweeps and POST /complete interleaving at their await points
InitJs == Init /\ variant = "js"
NextRace ==
    \/ Upserts({1}, RaceBodies, "sends")
    \/ Completes(Handlers, SweepCompletes, "sends")
    \/ Runs(Handlers, "sends")
    \/ Sweeps(Handlers, "sends")
    \/ Ticks
SpecRace == InitJs /\ [][NextRace]_vars

\* reminders.cjs: every handler interleaving with every other at their await points
InitCjs == Init /\ variant = "cjs"
NextConc ==
    \/ Upserts(Handlers, ConcBodies, "none")
    \/ Completes(Handlers, ConcCompletes, "none")
    \/ Runs(Handlers, "none")
    \/ Mails(Handlers, "none")
    \/ Sweeps(Handlers, "none")
SpecConc == InitCjs /\ [][NextConc]_vars

-----------------------------------------------------------------------------
(* Properties *)

\* the records of list whose companyNo is c
WithNo(list, c) == {i \in 1..Len(list) : list[i].companyNo = c}

\* C1: after two successful Upserts in a row that carry the same non-empty companyNo and
\* different status values, the store holds exactly one record with that companyNo, and
\* its status is the later Upsert's.
C1_TwoUpsertsOneRecord ==
    [][\A h \in Handlers :
        (/\ AnswersUpsert(h)
         /\ prevUp # <<>>
         /\ prevUp[1] = hs[h].req.companyNo
         /\ prevUp[2] # hs[h].req.status)
        => /\ Cardinality(WithNo(file', hs[h].req.companyNo)) = 1
           /\ \A i \in WithNo(file', hs[h].req.companyNo) : file'[i].status = hs[h].req.status]_vars

\* handler h, serving a request of kind k, gets past its file write in this step
Saves(h, k) == hs[h].kind = k /\ hs[h].pc = "saving" /\ hs'[h].pc # "saving"

\* C6: Complete called with a companyNo deactivates every stored record with that companyNo
\* and leaves unchanged every record that matches neither identity value; an omitted or
\* empty companyName is no identity value.
C6_CompleteFrame ==
    [][\A h \in Handlers :
        (Saves(h, "complete") /\ Truthy(hs[h].req.companyNo))
        => /\ Len(file') = Len(file)
           /\ \A i \in 1..Len(file) :
                /\ file[i].companyNo = hs[h].req.companyNo => ~file'[i].active
                /\ (/\ file[i].companyNo # hs[h].req.companyNo
                    /\ ~(Truthy(hs[h].req.companyName) /\ file[i].companyName = hs[h].req.companyName))
                   => file'[i] = file[i]]_vars

NoIdentity(p) == p.companyNo \in {Undef, ""} /\ p.companyName \in {Undef, ""}

\* C7: POST / and POST /complete with companyNo and companyName both absent or empty answer
\* 400 at once and leave the stored list as it was; every handler that writes the file
\* serves a request that has an identity.
C7_InvalidRejected ==
    [][\A h \in Handlers :
        /\ \A k \in {"upsert", "complete"}, p \in IdBodies \cup IdCompletes :
                (NoIdentity(p) /\ StartPost(h, k, p))
                => (hs'[h].pc = "done" /\ hs'[h].resp = 400 /\ file' = file)
        /\ \A k \in {"upsert", "complete"} :
                Saves(h, k) => ~NoIdentity(hs[h].req)]_vars

\* a request was refused while the store holds records
C7_Witness == \E h \in Handlers : hs[h].pc = "done" /\ hs[h].resp = 400 /\ Len(file) > 0

\* C2: reminders.cjs: no two stored records have the same key, whatever the interleaving.
C2_KeysUnique ==
    variant = "cjs" =>
        \A i, j \in 1..Len(file) : i # j => file[i].key # file[j].key

\* two different Upserts of one key, both about to write, the key already stored
C2_Witness ==
    \E h1, h2 \in Handlers :
        /\ h1 # h2
        /\ hs[h1].kind = "upsert" /\ hs[h1].pc = "saving"
        /\ hs[h2].kind = "upsert" /\ hs[h2].pc = "saving"
        /\ hs[h1].req # hs[h2].req
        /\ CjsKey(hs[h1].req) = CjsKey(hs[h2].req)
        /\ \E i \in 1..Len(file) : file[i].key = CjsKey(hs[h1].req)
        /\ Len(file) = 2

\* C8: reminders.cjs: every stored record whose status is "Completed" is inactive,
\* whatever the interleaving.
C8_CompletedInactive ==
    variant = "cjs" =>
        \A i \in 1..Len(file) : file[i].status = "Completed" => ~file[i].active

\* a record posted as Pending, with its bookkeeper's address, completed by POST /complete
C8_Witness ==
    \E i \in 1..Len(file) :
        /\ file[i].status = "Completed"
        /\ file[i].bookkeeperEmail = "bk@x"
        /\ ~file[i].active

\* C3 as stated: reminders.js: with no Upsert in between, no record is the subject of two
\* successful sends dated the same day.
C3_OnePerDay == variant = "js" => ~dup

\* C3 amended: the same, for sweeps that no other handler overlaps.
C3_OnePerDaySerial == variant = "js" => ~dupS

\* a sweep that runs alone has passed over the record that an earlier sweep notified
\* earlier on the same day
C3_Witness ==
    \E h \in Handlers :
        /\ hs[h].kind \in SweepKinds /\ hs[h].pc = "saving"
        /\ Len(hs[h].list) = 1
        /\ hs[h].list[1].active /\ Truthy(hs[h].list[1].bookkeeperEmail)
        /\ hs[h].list[1].lastNotifiedAt # Null
        /\ hs[h].list[1].lastNotifiedAt # toISOString(hs[h].now)
        /\ slice10(hs[h].list[1].lastNotifiedAt) = slice10(toISOString(hs[h].now))
        /\ <<1, toISOString(hs[h].now)[1]>> \in onceS

\* C4: reminders.cjs: of two sweeps run one after the other on the same day over the same
\* record, the second sends nothing.
C4_SecondSweepSendsNone == variant = "cjs" => ~dupS

\* C5: the record a sweep is passing to transporter.sendMail is active in the list the
\* sweep loaded.
C5_OnlyActiveSent ==
    \A h \in Handlers :
        hs[h].pc = "sending" => hs[h].list[hs[h].i].active

\* a sweep is sending for the second record, having passed over an inactive first record
\* that has an address
C5_Witness ==
    \E h \in Handlers :
        /\ hs[h].pc = "sending"
        /\ \E j \in 1..(hs[h].i - 1) :
              /\ ~hs[h].list[j].active
              /\ Truthy(Or(hs[h].list[j].bookkeeperEmail, hs[h].list[j].email))

\* C9: an Upsert and a Complete leave the lastNotifiedAt of every stored record as it was.
C9_LastNotifiedKept ==
    [][\A h \in Handlers, k \in {"upsert", "complete"} :
        Saves(h, k) =>
            \A i \in 1..Len(file) :
                i <= Len(file') /\ file'[i].lastNotifiedAt = file[i].lastNotifiedAt]_vars

\* C10: no handler changes the createdAt or the key of a stored record.
C10_CreatedAtKept ==
    [][\A h \in Handlers :
        (hs[h].pc = "saving" /\ hs'[h].pc # "saving") =>
            \A i \in 1..Len(file) :
                /\ i <= Len(file')
                /\ file'[i].createdAt = file[i].createdAt
                /\ file'[i].key = file[i].key]_vars

\* C11: an Upsert that updates a stored record (the list keeps its length) leaves every
\* property the payload omits at its stored value, in every record, and some record
\* carries the payload's value in every property the payload gives
C11_MergeKeepsOmitted ==
    [][\A h \in Handlers :
        (Saves(h, "upsert") /\ Len(file') = Len(file)) =>
            /\ \A i \in 1..Len(file) : \A f \in PayloadFields :
                    hs[h].req[f] = Undef => file'[i][f] = file[i][f]
            /\ \E i \in 1..Len(file) : \A f \in PayloadFields :
                    hs[h].req[f] # Undef => file'[i][f] = hs[h].req[f]]_vars

\* C12: the record an Upsert appends has lastNotifiedAt null, and is active exactly when
\* the payload's status is not "Completed"
C12_NewRecordFlags ==
    [][\A h \in Handlers :
        (Saves(h, "upsert") /\ Len(file') = Len(file) + 1) =>
            /\ file'[Len(file')].lastNotifiedAt = Null
            /\ file'[Len(file')].active = (hs[h].req.status # "Completed")]_vars

\* no stored record has the payload's companyNo, if given, or its companyName, if given
NoStoredMatch(list, p) ==
    \A i \in 1..Len(list) :
        /\ ~(Truthy(p.companyNo) /\ list[i].companyNo = p.companyNo)
        /\ ~(Truthy(p.companyName) /\ list[i].companyName = p.companyName)

\* C13: an Upsert whose identity matches no stored record appends one record at the end
\* and leaves every stored record as it was
C13_NoMatchAppends ==
    [][\A h \in Handlers :
        (Saves(h, "upsert") /\ NoStoredMatch(file, hs[h].req)) =>
            /\ Len(file') = Len(file) + 1
            /\ \A i \in 1..Len(file) : file'[i] = file[i]]_vars

\* C17: a Complete whose identifier matches no stored record answers 200 and leaves the
\* stored list as it was
C17_CompleteNoMatch ==
    [][\A h \in Handlers :
        (Saves(h, "complete") /\ NoStoredMatch(file, hs[h].req)) =>
            /\ file' = file
            /\ hs'[h].pc = "done" /\ hs'[h].resp = 200]_vars

NoAddress(r) == ~Truthy(r.bookkeeperEmail) /\ ~Truthy(r.email)

\* the indexes of the sweep's sendMail calls so far
Tried == {att[n][1] : n \in 1..Len(att)}

SavesSweep(h) == hs[h].kind \in SweepKinds /\ hs[h].pc = "saving" /\ hs'[h].pc # "saving"

\* C14: a sweep never awaits sendMail for a record without bookkeeperEmail and email,
\* and saves such a record with the lastNotifiedAt it loaded
C14_NoAddressSkipped ==
    [][\A h \in Handlers :
        /\ hs'[h].pc = "sending" => ~NoAddress(hs'[h].list[hs'[h].i])
        /\ SavesSweep(h) =>
              \A i \in 1..Len(file) :
                  NoAddress(file[i]) =>
                      /\ i \notin Tried
                      /\ i <= Len(file') /\ file'[i].lastNotifiedAt = file[i].lastNotifiedAt]_vars

\* a sweep is about to save after it passed over an active record without address and
\* mailed the record behind it
C14_Witness ==
    \E h \in Handlers :
        /\ hs[h].kind \in SweepKinds /\ hs[h].pc = "saving"
        /\ Len(hs[h].list) = 2
        /\ hs[h].list[1].active /\ NoAddress(hs[h].list[1])
        /\ Len(att) = 1 /\ att[1][1] = 2 /\ att[1][2]

\* the sweep that began at clock tick now sends for record r
Eligible(r, now) ==
    /\ r.active /\ ~NoAddress(r)
    /\ variant = "js" => (r.lastNotifiedAt = Null \/ r.lastNotifiedAt[1] # now \div TicksPerDay)

\* C15: after a sendMail that rejects, the sweep still sends for every later record it
\* should; the sweep writes the file once, as its last step; the list it writes differs
\* from the list it read only in the lastNotifiedAt of the records whose sendMail resolved
C15_SweepSurvivesFailure ==
    [][\A h \in Handlers :
        /\ (hs[h].kind \in SweepKinds /\ hs[h].pc \in {"loading", "sending"}) => file' = file
        /\ SavesSweep(h) =>
              /\ hs'[h].pc = "done"
              /\ Len(file') = Len(file)
              /\ \A n \in 1..Len(att) : \A i \in 1..Len(file) :
                      (~att[n][2] /\ i > att[n][1] /\ Eligible(file[i], hs[h].now)) => i \in Tried
              /\ \A i \in 1..Len(file) :
                      IF \E n \in 1..Len(att) : att[n][1] = i /\ att[n][2]
                      THEN \E n \in 1..Len(att) :
                              /\ att[n][1] = i /\ att[n][2]
                              /\ file'[i] = [file[i] EXCEPT !.lastNotifiedAt =
                                                IF variant = "js" THEN toISOString(hs[h].now)
                                                ELSE toISOString(att[n][3])]
                      ELSE file'[i] = file[i]]_vars

\* a sweep is about to save after the first sendMail rejected and the second resolved
C15_Witness ==
    \E h \in Handlers :
        /\ hs[h].kind \in SweepKinds /\ hs[h].pc = "saving"
        /\ Len(att) = 2
        /\ att[1][1] = 1 /\ ~att[1][2]
        /\ att[2][1] = 2 /\ att[2][2]

\* C16: a record whose sendMail rejected is written as it was read and is tried once in
\* that sweep; the next sweep tries every record that failed in the sweep before it and is
\* still active with an address
C16_FailedRetriedNextSweep ==
    [][\A h \in Handlers :
        SavesSweep(h) =>
            /\ \A n \in 1..Len(att) :
                    ~att[n][2] =>
                        /\ file'[att[n][1]] = file[att[n][1]]
                        /\ \A m \in 1..Len(att) : m # n => att[m][1] # att[n][1]
            /\ \A i \in failedPrev :
                    (i <= Len(file) /\ file[i].active /\ ~NoAddress(file[i])) => i \in Tried]_vars

\* a sweep is about to save; the sendMail for record 1 rejected in the sweep before it and
\* has resolved in this one
C16_Witness ==
    \E h \in Handlers :
        /\ hs[h].kind \in SweepKinds /\ hs[h].pc = "saving"
        /\ failedPrev = {1}
        /\ \E n \in 1..Len(att) : att[n][1] = 1 /\ att[n][2]

\* C20: the sendMail a sweep awaits for a record is addressed to the record's
\* bookkeeperEmail, or to its email when bookkeeperEmail is empty
C20_AddressedToBookkeeper ==
    \A h \in Handlers :
        hs[h].pc = "sending" =>
            hs[h].to = (IF Truthy(hs[h].list[hs[h].i].bookkeeperEmail)
                        THEN hs[h].list[hs[h].i].bookkeeperEmail
                        ELSE hs[h].list[hs[h].i].email)

\* the properties that say which company a record is about and where it came from
SamePlace(r, q) ==
    /\ r.companyNo = q.companyNo /\ r.companyName = q.companyName
    /\ r.key = q.key /\ r.id = q.id /\ r.createdAt = q.createdAt

\* ISO timestamp a is later than b
Later(a, b) == a[1] > b[1] \/ (a[1] = b[1] /\ a[2] > b[2])

\* C19: GET / answers with the whole stored list in file order; an Upsert changes at most
\* one stored position, or appends one record behind the unchanged list; Complete and the
\* sweep keep every record in its place
C19_InsertionOrder ==
    [][\A h \in Handlers :
        /\ (hs[h].pc = "reading" /\ hs'[h].pc = "done") =>
              hs'[h].resp = 200 /\ hs'[h].out = "array" /\ hs'[h].list = file
        /\ Saves(h, "upsert") =>
              \/ /\ Len(file') = Len(file)
                 /\ Cardinality({i \in 1..Len(file) : file'[i] # file[i]}) <= 1
              \/ /\ Len(file') = Len(file) + 1
                 /\ \A i \in 1..Len(file) : file'[i] = file[i]
        /\ (Saves(h, "complete") \/ SavesSweep(h)) =>
              /\ Len(file') = Len(file)
              /\ \A i \in 1..Len(file) : SamePlace(file'[i], file[i])]_vars

\* GET / has answered two records: the first inactive and written by an Upsert later than
\* the second was, the second notified by a sweep
C19_Witness ==
    \E h \in Handlers :
        /\ hs[h].pc = "done" /\ hs[h].out = "array"
        /\ Len(hs[h].list) = 2
        /\ ~hs[h].list[1].active
        /\ Later(hs[h].list[1].createdAt, hs[h].list[2].createdAt)
        /\ hs[h].list[2].lastNotifiedAt # Null

\* C18: while reminders.json holds no array, every handler that reads it goes on as with
\* an empty list: nothing is thrown, no handler answers 500, GET / answers the empty list,
\* POST / saves the one new record, POST /complete and the sweep save the empty list
C18_NoArrayIsEmpty ==
    [][\A h \in Handlers :
        (disk \in NoArray /\ hs[h].pc \in {"loading", "reading"} /\ hs'[h] # hs[h]) =>
            /\ hs'[h].out # "TypeError" /\ hs'[h].resp # 500
            /\ hs[h].kind = "list" =>
                  hs'[h].resp = 200 /\ hs'[h].out = "array" /\ hs'[h].list = <<>>
            /\ hs[h].kind = "upsert" => hs'[h].pc = "saving" /\ Len(hs'[h].list) = 1
            /\ hs[h].kind \in {"complete"} \cup SweepKinds =>
                  hs'[h].pc = "saving" /\ hs'[h].list = <<>>]_vars

\* C21: in reminders.cjs, with one handler at a time, every step leaves the keys stored
\* before it as a prefix of the keys stored after it
C21_KeysPrefix ==
    [][variant = "cjs" =>
        /\ Len(file') >= Len(file)
        /\ \A i \in 1..Len(file) : file'[i].key = file[i].key]_vars

\* reminders.cjs has just saved an Upsert over two records, the first completed and the
\* second notified by a sweep
C21_Witness ==
    /\ variant = "cjs"
    /\ \E h \in Handlers : hs[h].kind = "upsert" /\ hs[h].pc = "mailing"
    /\ Len(file) = 2
    /\ ~file[1].active /\ file[1].status = "Completed"
    /\ file[2].lastNotifiedAt # Null

\* C22: whenever the proxy has answered a submission that the upstream answered, its
\* status code and body are the upstream's
C22_RelaysUpstream == (px.pc = "done" /\ px.up # <<>>) => px.resp = px.up

\* C23: a POST / or POST /complete that passed validation answers when it ends, whether
\* or not its file write succeeded
C23_AlwaysAnswered ==
    [][\A h \in Handlers :
        (hs[h].kind \in {"upsert", "complete"} /\ hs[h].pc \notin {"idle", "done"}
            /\ hs'[h].pc = "done") =>
            hs'[h].resp \in {200, 500}]_vars

\* C24: the sweep's save replaces the file by the list the sweep loaded: a record that an
\* Upsert stored behind the end of that list since the load is no longer stored, and a
\* record the Upsert rewrote is stored as the sweep loaded it
C24_SweepSaveOverwrites ==
    [][\A h \in Handlers :
        SavesSweep(h) =>
            /\ Len(file') = Len(hs[h].list)
            /\ \A i \in 1..Len(file') : file'[i].createdAt = hs[h].list[i].createdAt]_vars

\* the sweep has finished its sends and is about to save a list without the record that
\* an Upsert stored, and answered 200 for, after the sweep had loaded
C24_Witness ==
    /\ hs[1].kind \in SweepKinds /\ hs[1].pc = "saving"
    /\ \E i \in 1..Len(hs[1].list) : hs[1].list[i].lastNotifiedAt # Null
    /\ hs[2].pc = "done" /\ hs[2].resp = 200
    /\ Len(file) > Len(hs[1].list)

\* handler h starts to await sendMail for a record in this step
StartsSend(h) ==
    hs'[h].pc = "sending" /\ (hs[h].pc # "sending" \/ hs'[h].i # hs[h].i)

C26_SweepFrame ==
    [][\A h \in Handlers :
        SavesSweep(h) =>
            /\ Len(file') = Len(file)
            /\ \A i \in 1..Len(file) :
                    /\ DOMAIN file'[i] = DOMAIN file[i]
                    /\ \A f \in DOMAIN file[i] \ {"lastNotifiedAt"} : file'[i][f] = file[i][f]
                    /\ file'[i].lastNotifiedAt # file[i].lastNotifiedAt =>
                          \E n \in 1..Len(att) : att[n][1] = i /\ att[n][2]]_vars

\* a sweep is about to save after the first sendMail resolved and the second rejected
C26_Witness ==
    \E h \in Handlers :
        /\ hs[h].kind \in SweepKinds /\ hs[h].pc = "saving"
        /\ Len(att) = 2
        /\ att[1][1] = 1 /\ att[1][2]
        /\ att[2][1] = 2 /\ ~att[2][2]

\* C27: when a sweep saves, its sendMail calls were made at strictly increasing indexes,
\* and these are exactly the indexes of the loaded records that are active, have an
\* address and (reminders.js) are not dated today; and a sweep that has started ends
C27_SinglePass ==
    /\ [][\A h \in Handlers :
            SavesSweep(h) =>
                /\ \A n \in 1..(Len(att) - 1) : att[n][1] < att[n + 1][1]
                /\ Tried = {i \in 1..Len(file) : Eligible(file[i], hs[h].now)}]_vars
    /\ \A h \in Handlers :
            (hs[h].kind \in SweepKinds /\ hs[h].pc = "loading") ~> (hs[h].pc = "done")

\* a sweep of two sendMail calls is about to save, the later one for a record that was
\* notified on an earlier day
C27_Witness ==
    \E h \in Handlers :
        /\ hs[h].kind \in SweepKinds /\ hs[h].pc = "saving"
        /\ Len(att) = 2 /\ att[1][1] = 1 /\ att[2][1] = 2 /\ ~att[2][2]
        /\ hs[h].list[2].lastNotifiedAt # Null
        /\ hs[h].list[2].lastNotifiedAt[1] < clock \div TicksPerDay

\* C28: when an Upsert with a status other than "Completed" saves, every stored record
\* that was inactive and has the payload's companyNo is stored active with lastNotifiedAt
\* null, and a sweep that loads it sends for it if it has an address
C28_UpsertReactivates ==
    [][\A h \in Handlers :
        (Saves(h, "upsert") /\ hs[h].req.status # "Completed") =>
            \A i \in 1..Len(file) :
                (~file[i].active /\ Truthy(hs[h].req.companyNo)
                    /\ file[i].companyNo = hs[h].req.companyNo) =>
                    /\ i <= Len(file')
                    /\ file'[i].active /\ file'[i].lastNotifiedAt = Null
                    /\ ~NoAddress(file'[i]) => Due(variant, file'[i], clock)]_vars

\* C29: when POST /api/upload-csv answers 403 and uploads/master.csv existed as the
\* request came in, the file exists afterwards with the text it had
C29_RejectedUploadKeepsMaster ==
    [][(csv.pc = "stored" /\ csv'.pc = "done" /\ csv'.resp[1] = 403 /\ csv.hadPresent) =>
        (csv'.present /\ csv'.master = csv.had)]_vars

\* C30: activeSuggestion is always between -1 and filteredSuggestions.length - 1, and a
\* selection made by Enter took a suggestion that filteredSuggestions had
C30_ActiveInRange ==
    /\ ac.activeSuggestion >= -1
    /\ ac.activeSuggestion <= Len(ac.filteredSuggestions) - 1
    /\ ac.sel.key => ac.sel.ok
\* Enter selected the second suggestion of the list
C30_Witness == ac.sel.key /\ ac.sel.ok /\ ac.sel.idx >= 1

====
